---------------------------- MODULE Spec2Model ----------------------------
(***************************************************************************)
(* A model of scripts/check_deeplx.py: the availability checker for        *)
(* DeeplX-compatible translation endpoints.                                *)
(*                                                                         *)
(* Strings are sequences of one-character strings, so that strip(),        *)
(* split(), lower() and rstrip("/") are computed and not assumed.  An      *)
(* Optional[str] is a record [some, s]; None is [some |-> FALSE].          *)
(* A decoded JSON document is a root value and a heap of containers: the   *)
(* node numbers are the object identities that id() returns.               *)
(***************************************************************************)
EXTENDS Integers, Sequences, FiniteSets, TLC

(***************************************************************************)
(* Bounds of the model.                                                    *)
(***************************************************************************)
MaxLen == 2        \* validator: longest source / candidate string
MaxSize == 3       \* extractor: items held by the two containers together
MaxRootItems == 3  \* extractor: items of a root mapping over every key
MaxTexts == 3      \* prober: configured sample texts of a direct call
MaxRows == 2       \* main: data rows of the endpoint list

(***************************************************************************)
(* Strings.                                                                *)
(***************************************************************************)
Whitespace == {" "}

Lower(c) ==
    CASE c = "A" -> "a"
      [] c = "H" -> "h"
      [] c = "B" -> "b"
      [] c = "Base_URL" -> "base_url"
      [] c = "Name" -> "name"
      [] OTHER -> c

\* str.lower()
LowerStr(s) == [k \in 1..Len(s) |-> Lower(s[k])]

RECURSIVE LStrip(_)
LStrip(s) ==
    IF s # <<>> /\ Head(s) \in Whitespace THEN LStrip(Tail(s)) ELSE s

RECURSIVE RStrip(_)
RStrip(s) ==
    IF s # <<>> /\ s[Len(s)] \in Whitespace
    THEN RStrip(SubSeq(s, 1, Len(s) - 1))
    ELSE s

\* str.strip()
Strip(s) == RStrip(LStrip(s))

\* str.split(): the maximal runs of non-whitespace characters, in order.
\* `cur` is the word being read, `words` the words already closed.
RECURSIVE SplitFrom(_, _, _)
SplitFrom(s, cur, words) ==
    IF s = <<>>
    THEN IF cur = <<>> THEN words ELSE Append(words, cur)
    ELSE IF Head(s) \in Whitespace
         THEN SplitFrom(Tail(s), <<>>,
                        IF cur = <<>> THEN words ELSE Append(words, cur))
         ELSE SplitFrom(Tail(s), Append(cur, Head(s)), words)

Split(s) == SplitFrom(s, <<>>, <<>>)

\* "".join(words)
RECURSIVE Join(_)
Join(words) == IF words = <<>> THEN <<>> ELSE Head(words) \o Join(Tail(words))

\* Optional[str]
None == [some |-> FALSE, s |-> <<>>]
Some(s) == [some |-> TRUE, s |-> s]

\* Python truthiness of an Optional[str]: None and "" are falsy.
Truthy(o) == o.some /\ o.s # <<>>

(***************************************************************************)
(* is_translation_valid                                                    *)
(***************************************************************************)
\* "".join(text.split()).lower()
Normalize(s) == LowerStr(Join(Split(s)))

\* The validator without its guard on an empty normalized translation.
IsTranslationValid_NoEmptyGuard(source_text, translated_text) ==
    IF ~Truthy(translated_text) THEN FALSE
    ELSE Normalize(source_text) # Normalize(translated_text.s)

IsTranslationValid(source_text, translated_text) ==
    IF ~Truthy(translated_text) THEN FALSE
    ELSE IF Normalize(translated_text.s) = <<>> THEN FALSE
    ELSE Normalize(source_text) # Normalize(translated_text.s)

(***************************************************************************)
(* JSON values.  A mapping holds its keys and, at the same positions, its  *)
(* values, in insertion order; a list holds its items and no keys.         *)
(***************************************************************************)
StrV(s) == [t |-> "str", s |-> s, n |-> 0]
RefV(n) == [t |-> "ref", s |-> <<>>, n |-> n]
NumV == [t |-> "num", s |-> <<>>, n |-> 0]

DictC(keys, vals) == [kind |-> "dict", keys |-> keys, items |-> vals]
ListC(vals) == [kind |-> "list", keys |-> <<>>, items |-> vals]

preferred_keys == <<"data", "text", "result", "translation">>

\* key in current
HasKey(c, key) == \E k \in 1..Len(c.keys) : c.keys[k] = key

\* current[key]
Lookup(c, key) == c.items[CHOOSE k \in 1..Len(c.keys) : c.keys[k] = key]

\* current.values(), in insertion order
Values(c) == c.items

\* The outcome of scanning part of a container: a string to return, or the
\* queue as the scan leaves it.
Found(s) == [found |-> TRUE, s |-> s, queue |-> <<>>]
Pending(q) == [found |-> FALSE, s |-> <<>>, queue |-> q]

(***************************************************************************)
(* extract_translation                                                     *)
(***************************************************************************)
Nodes == {1, 2}

\* id(current): a container is its node, a scalar or a string its object.
Ident(v) == v

\* for key in preferred_keys: ... (from the k-th preferred key on)
RECURSIVE ProbeFrom(_, _, _)
ProbeFrom(c, k, q) ==
    IF k > Len(preferred_keys) THEN Pending(q)
    ELSE IF ~HasKey(c, preferred_keys[k]) THEN ProbeFrom(c, k + 1, q)
    ELSE LET value == Lookup(c, preferred_keys[k]) IN
         IF value.t = "str"
         THEN IF Strip(value.s) # <<>>
              THEN Found(Strip(value.s))
              ELSE ProbeFrom(c, k + 1, q)
         ELSE ProbeFrom(c, k + 1, Append(q, value))

PreferredProbe(c, q) == ProbeFrom(c, 1, q)

\* for value in current.values(): ...
RECURSIVE ValuesScan(_, _)
ValuesScan(vals, q) ==
    IF vals = <<>> THEN Pending(q)
    ELSE LET value == Head(vals) IN
         IF value.t = "str"
         THEN IF Strip(value.s) # <<>>
              THEN Found(Strip(value.s))
              ELSE ValuesScan(Tail(vals), q)
         ELSE IF value.t = "ref"
              THEN ValuesScan(Tail(vals), Append(q, value))
              ELSE ValuesScan(Tail(vals), q)

\* A list scanned for its strings only: nested containers are dropped.
RECURSIVE ListScan_StringsOnly(_, _)
ListScan_StringsOnly(items, q) ==
    IF items = <<>> THEN Pending(q)
    ELSE IF Head(items).t = "str" /\ Strip(Head(items).s) # <<>>
         THEN Found(Strip(Head(items).s))
         ELSE ListScan_StringsOnly(Tail(items), q)

\* for item in current: ...
RECURSIVE ListScan(_, _)
ListScan(items, q) ==
    IF items = <<>> THEN Pending(q)
    ELSE LET item == Head(items) IN
         IF item.t = "str"
         THEN IF Strip(item.s) # <<>>
              THEN Found(Strip(item.s))
              ELSE ListScan(Tail(items), q)
         ELSE IF item.t = "ref"
              THEN ListScan(Tail(items), Append(q, item))
              ELSE ListScan(Tail(items), q)

\* The mapping scanned in insertion order first, the preferred keys after.
DictScan_ValuesFirst(c, q) ==
    LET p == ValuesScan(Values(c), q) IN
    IF p.found THEN p ELSE PreferredProbe(c, p.queue)

\* if isinstance(current, dict): the preferred keys, then every value.
DictScan(c, q) ==
    LET p == PreferredProbe(c, q) IN
    IF p.found THEN p ELSE ValuesScan(Values(c), p.queue)

\* The state of the traversal between two iterations of `while queue`.
Running(q, vis) == [queue |-> q, visited |-> vis, done |-> FALSE, result |-> None]
Returned(q, vis, r) == [queue |-> q, visited |-> vis, done |-> TRUE, result |-> r]

\* The traversal without its visited check.
AlreadyVisited_Never(current, vis) == FALSE

\* if identifier in visited: continue
AlreadyVisited(current, vis) == Ident(current) \in vis

\* visited.add(identifier)
MarkVisited(current, vis) == vis \cup {Ident(current)}

\* One iteration of `while queue`, or the `return None` that ends the loop.
ExtractIter(h, q, vis) ==
    IF q = <<>> THEN Returned(q, vis, None)
    ELSE LET current == Head(q)
             rest == Tail(q)
         IN
         IF AlreadyVisited(current, vis) THEN Running(rest, vis)
         ELSE LET vis2 == MarkVisited(current, vis) IN
              IF current.t = "str"
              THEN IF Strip(current.s) # <<>>
                   THEN Returned(rest, vis2, Some(Strip(current.s)))
                   ELSE Running(rest, vis2)
              ELSE IF current.t = "ref"
              THEN LET c == h[current.n]
                       r == IF c.kind = "dict" THEN DictScan(c, rest)
                                               ELSE ListScan(c.items, rest)
                   IN IF r.found THEN Returned(rest, vis2, Some(r.s))
                                 ELSE Running(r.queue, vis2)
              ELSE Running(rest, vis2)

\* extract_translation(payload), run to its return.
RECURSIVE ExtractFrom(_, _, _)
ExtractFrom(h, q, vis) ==
    LET nx == ExtractIter(h, q, vis) IN
    IF nx.done THEN nx.result ELSE ExtractFrom(h, nx.queue, nx.visited)

ExtractTranslation(h, payload) == ExtractFrom(h, <<payload>>, {})

(***************************************************************************)
(* check_endpoint.  Texts, details and URLs are strings too: sequences of  *)
(* pieces, a literal of the source being one piece.  The wall-clock        *)
(* `elapsed` field is left out: nothing is decided on it.                  *)
(***************************************************************************)
DEFAULT_TEST_TEXTS == <<<<"Hello">>, <<"Good", " ", "morning">>, <<"Testing">>>>
DEFAULT_SOURCE_LANG == <<"EN">>
DEFAULT_TARGET_LANG == <<"ZH">>

\* str(n) for a natural number
RECURSIVE Decimal(_)
Decimal(n) ==
    LET digit(d) == <<"0", "1", "2", "3", "4", "5", "6", "7", "8", "9">>[d + 1] IN
    IF n < 10 THEN <<digit(n)>> ELSE Decimal(n \div 10) \o <<digit(n % 10)>>

\* base_url.rstrip("/")
RECURSIVE RStripSlash(_)
RStripSlash(s) ==
    IF s # <<>> /\ s[Len(s)] = "/"
    THEN RStripSlash(SubSeq(s, 1, Len(s) - 1))
    ELSE s

FullUrl(base) == RStripSlash(base) \o <<"/translate">>

BuildPayload(text, source_lang, target_lang) ==
    [text |-> text, source_lang |-> source_lang, target_lang |-> target_lang]

\* Optional[int]
NoStatus == [some |-> FALSE, code |-> 0]
Status(code) == [some |-> TRUE, code |-> code]

SampleResult(text, translation, success, detail) ==
    [text |-> text, translation |-> translation, success |-> success,
     detail |-> detail]

EndpointResult(n, base, full, success, status, detail, samps) ==
    [name |-> n, base_url |-> base, full_url |-> full, success |-> success,
     status_code |-> status, detail |-> detail, samples |-> samps]

\* What the server, or the network, answers to one POST.
Exc(msg) ==
    [kind |-> "exc", msg |-> msg, status |-> 0, json |-> FALSE,
     root |-> NumV, heap |-> [n \in Nodes |-> ListC(<<>>)]]
Http(code) ==
    [kind |-> "resp", msg |-> <<>>, status |-> code, json |-> FALSE,
     root |-> NumV, heap |-> [n \in Nodes |-> ListC(<<>>)]]
NonJson == Http(200)
Json(root, h) ==
    [kind |-> "resp", msg |-> <<>>, status |-> 200, json |-> TRUE,
     root |-> root, heap |-> h]

\* The locals of check_endpoint that the sample loop updates, and whether
\* the iteration left the loop with `break`.
Locals(status, samps, completed, exception) ==
    [status_code |-> status, samples |-> samps,
     completed_samples |-> completed, last_exception |-> exception]

Step(st, brk) == [st |-> st, brk |-> brk]

\* except RequestException, without the failed sample being recorded.
OnException_NoRecord(st, sample_text, msg) ==
    Step([st EXCEPT !.last_exception = Some(msg)], TRUE)

\* except RequestException, with the status of earlier responses forgotten.
OnException_ClearsStatus(st, sample_text, msg) ==
    Step([st EXCEPT !.last_exception = Some(msg),
                    !.status_code = NoStatus,
                    !.samples = Append(@, SampleResult(sample_text, None, FALSE, msg))],
         TRUE)

\* except requests.exceptions.RequestException as exc: ...; break
OnException(st, sample_text, msg) ==
    Step([st EXCEPT !.last_exception = Some(msg),
                    !.samples = Append(@, SampleResult(sample_text, None, FALSE, msg))],
         TRUE)

\* if response.status_code != 200: ...; break
OnBadStatus(st, sample_text, code) ==
    Step([st EXCEPT !.samples =
            Append(@, SampleResult(sample_text, None, FALSE,
                                   <<"HTTP ">> \o Decimal(code)))],
         TRUE)

\* A body that is not JSON recorded, and the loop going on to the next sample.
OnNonJson_Continue(st, sample_text) ==
    Step([st EXCEPT !.samples =
            Append(@, SampleResult(sample_text, None, FALSE, <<"Non-JSON response">>))],
         FALSE)

\* except ValueError: ...; break
OnNonJson(st, sample_text) ==
    Step([st EXCEPT !.samples =
            Append(@, SampleResult(sample_text, None, FALSE, <<"Non-JSON response">>))],
         TRUE)

\* if not is_translation_valid(sample_text, translation): ...; break
OnInvalid(st, sample_text, translation) ==
    Step([st EXCEPT !.samples =
            Append(@, SampleResult(sample_text, translation, FALSE,
                        IF Truthy(translation)
                        THEN <<"Translation identical to source">>
                        ELSE <<"Missing translation field">>))],
         TRUE)

\* samples.append(SampleResult(..., success=True, detail="OK")); completed_samples += 1
OnValid(st, sample_text, translation) ==
    Step([st EXCEPT !.samples =
                       Append(@, SampleResult(sample_text, translation, TRUE, <<"OK">>)),
                    !.completed_samples = @ + 1],
         FALSE)

\* One iteration of `for sample_text in texts`, given the answer o to its POST.
AttemptSample(st, sample_text, o) ==
    IF o.kind = "exc" THEN OnException(st, sample_text, o.msg)
    ELSE LET st1 == [st EXCEPT !.status_code = Status(o.status)] IN
         IF o.status # 200 THEN OnBadStatus(st1, sample_text, o.status)
         ELSE IF ~o.json THEN OnNonJson(st1, sample_text)
         ELSE LET translation == ExtractTranslation(o.heap, o.root) IN
              IF ~IsTranslationValid(sample_text, translation)
              THEN OnInvalid(st1, sample_text, translation)
              ELSE OnValid(st1, sample_text, translation)

\* success, computed as "some sample completed".
Success_AnyCompleted(completed_samples, total_samples) == completed_samples >= 1

\* success = completed_samples == total_samples
Success(completed_samples, total_samples) == completed_samples = total_samples

\* The failure detail without the translation the failed sample carries.
FailureDetail_NoSnippet(failed_sample) ==
    <<"Sample '">> \o failed_sample.text \o <<"' failed: ">> \o failed_sample.detail

\* f"Sample '{failed_sample.text}' failed: {failed_sample.detail}{translated_snippet}"
FailureDetail(failed_sample) ==
    LET translated_snippet ==
            IF Truthy(failed_sample.translation)
            THEN <<" -> ">> \o failed_sample.translation.s
            ELSE <<>>
    IN <<"Sample '">> \o failed_sample.text \o <<"' failed: ">>
       \o failed_sample.detail \o translated_snippet

\* next((sample for sample in samples if not sample.success), None): its index, or 0
FirstFailed(samps) ==
    IF \E k \in 1..Len(samps) : ~samps[k].success
    THEN CHOOSE k \in 1..Len(samps) :
            /\ ~samps[k].success
            /\ \A j \in 1..(k - 1) : samps[j].success
    ELSE 0

\* The summary detail of a probe.
Detail(success, total_samples, st) ==
    IF success
    THEN <<"All ">> \o Decimal(total_samples) \o <<" samples translated">>
    ELSE IF FirstFailed(st.samples) # 0
         THEN FailureDetail(st.samples[FirstFailed(st.samples)])
         ELSE IF Truthy(st.last_exception)
              THEN <<"Request failed: ">> \o st.last_exception.s
              ELSE <<"Unknown failure">>

\* What check_endpoint returns once the loop is left.
Summarize(n, base, full, total_samples, st) ==
    LET success == Success(st.completed_samples, total_samples) IN
    EndpointResult(n, base, full, success, st.status_code,
                   Detail(success, total_samples, st), st.samples)

(***************************************************************************)
(* read_endpoints and main.  The endpoint list is what csv.Sniffer and the *)
(* csv readers make of the file: whether it exists and can be sniffed, the *)
(* header row if one is detected, and the data rows as lists of cells.     *)
(***************************************************************************)
\* name.strip().lower()
StripLower(s) == LowerStr(Strip(s))

\* normalized_fieldnames.get(wanted): the column of that name (the last one, as
\* a dict comprehension keeps the last), or 0
FieldIndex(header, wanted) ==
    LET hits == {j \in 1..Len(header) : StripLower(header[j]) = wanted} IN
    IF hits = {} THEN 0 ELSE CHOOSE j \in hits : \A i \in hits : i <= j

\* (row.get(field) or "").strip()
CellOf(row, j) == IF j >= 1 /\ j <= Len(row) THEN Strip(row[j]) ELSE <<>>

\* not raw_base or raw_base.startswith("#")
Skipped(raw_base) == raw_base = <<>> \/ Head(raw_base) = "#"

\* The (name, base_url) pairs of the rows from the k-th on; base and nm are the
\* columns read (0: no such column).
RECURSIVE RowsFrom(_, _, _, _)
RowsFrom(rows, k, base, nm) ==
    IF k > Len(rows) THEN <<>>
    ELSE LET row == rows[k]
             raw_base == CellOf(row, base)
             given == CellOf(row, nm)
         IN IF row = <<>> \/ Skipped(raw_base)
            THEN RowsFrom(rows, k + 1, base, nm)
            ELSE <<[name |-> IF given # <<>> THEN given ELSE raw_base,
                    base_url |-> raw_base]>>
                 \o RowsFrom(rows, k + 1, base, nm)

Raised(msg) == [ok |-> FALSE, error |-> msg, endpoints |-> <<>>]
Read(eps) == [ok |-> TRUE, error |-> <<>>, endpoints |-> eps]

ReadEndpoints(file) ==
    IF file.state = "missing" THEN Raised(<<"CSV file not found">>)
    ELSE IF file.state = "garbled" THEN Raised(<<"Could not determine delimiter">>)
    ELSE IF file.header # <<>> /\ FieldIndex(file.header, <<"base_url">>) = 0
    THEN Raised(<<"CSV must contain a 'base_url' column when a header row is present.">>)
    ELSE LET eps ==
                IF file.header # <<>>
                THEN RowsFrom(file.rows, 1, FieldIndex(file.header, <<"base_url">>),
                              FieldIndex(file.header, <<"name">>))
                ELSE RowsFrom(file.rows, 1, 1, 2)
         IN IF eps = <<>> THEN Raised(<<"No endpoints found in CSV file">>)
            ELSE Read(eps)

\* all(r.success for r in results)
OverallSuccess(rs) == \A k \in 1..Len(rs) : rs[k].success

\* The exit code with --allow-partial ignored.
ExitCode_IgnoresAllowPartial(rs, allow_partial) == IF ~OverallSuccess(rs) THEN 1 ELSE 0

\* if not overall_success and not args.allow_partial: return 1; return 0
ExitCode(rs, allow_partial) ==
    IF ~OverallSuccess(rs) /\ ~allow_partial THEN 1 ELSE 0

(***************************************************************************)
(* State.                                                                  *)
(***************************************************************************)
VARIABLES
    \* a call of is_translation_valid
    vpc, source_text, translated_text, valid,
    \* a call of extract_translation, and what it has done so far
    epc, heap, payload, queue, visited, extracted, expanded, iters,
    \* a call of check_endpoint: its arguments, its locals, what it returned
    ppc, name, base_url, texts, full_url, idx, loc, ret,
    \* the network: the server behind the endpoint, the POSTs issued so far,
    \* and the answer to each
    server, sent, answers,
    \* a run of main: its inputs, its locals, its outputs
    mpc, file, args, disk_ok, endpoints, run_texts, results, report, exit_code

valVars == <<vpc, source_text, translated_text, valid>>
extVars == <<epc, heap, payload, queue, visited, extracted, expanded, iters>>
probeVars == <<ppc, name, base_url, texts, full_url, idx, loc, ret>>
netVars == <<server, sent, answers>>
mainVars == <<mpc, file, args, disk_ok, endpoints, run_texts, results, report, exit_code>>
vars == <<valVars, extVars, probeVars, netVars, mainVars>>

EmptyHeap == [n \in Nodes |-> ListC(<<>>)]

ValIdle ==
    /\ vpc = "idle"
    /\ source_text = <<>>
    /\ translated_text = None
    /\ valid = FALSE

ExtIdle ==
    /\ epc = "idle"
    /\ heap = EmptyHeap
    /\ payload = NumV
    /\ queue = <<>>
    /\ visited = {}
    /\ extracted = None
    /\ expanded = [n \in Nodes |-> 0]
    /\ iters = 0

NoLocals == Locals(NoStatus, <<>>, 0, None)
NoResult == EndpointResult(<<>>, <<>>, <<>>, FALSE, NoStatus, <<>>, <<>>)

ProbeIdle ==
    /\ ppc = "idle"
    /\ name = <<>>
    /\ base_url = <<>>
    /\ texts = <<>>
    /\ full_url = <<>>
    /\ idx = 0
    /\ loc = NoLocals
    /\ ret = NoResult

NetIdle ==
    /\ server = "any"
    /\ sent = <<>>
    /\ answers = <<>>

NoFile == [state |-> "missing", header |-> <<>>, rows |-> <<>>]
NoArgs == [texts |-> <<>>, allow_partial |-> FALSE, json_output |-> FALSE]
NoReport == [printed |-> FALSE, json |-> "none", stderr |-> <<>>]

MainIdle ==
    /\ mpc = "idle"
    /\ file = NoFile
    /\ args = NoArgs
    /\ disk_ok = TRUE
    /\ endpoints = <<>>
    /\ run_texts = <<>>
    /\ results = <<>>
    /\ report = NoReport
    /\ exit_code = 0

(***************************************************************************)
(* The validator on every pair of short strings.                           *)
(***************************************************************************)
ValAlphabet == {" ", "a", "A", "b"}

StringsUpTo(alphabet, n) == UNION {[1..k -> alphabet] : k \in 0..n}

InitValid ==
    /\ vpc = "call"
    /\ source_text \in StringsUpTo(ValAlphabet, MaxLen)
    /\ translated_text \in
          {None} \cup {Some(s) : s \in StringsUpTo(ValAlphabet, MaxLen)}
    /\ valid = FALSE
    /\ ExtIdle /\ ProbeIdle /\ NetIdle /\ MainIdle

ValidCall ==
    /\ vpc = "call"
    /\ valid' = IsTranslationValid(source_text, translated_text)
    /\ vpc' = "done"
    /\ UNCHANGED <<source_text, translated_text, extVars, probeVars, netVars, mainVars>>

NextValid == ValidCall

SpecValid == InitValid /\ [][NextValid]_vars

(***************************************************************************)
(* The extractor on every small document.                                  *)
(***************************************************************************)
Blank == <<" ">>
Padded == <<" ", "x", " ">>
Plain == <<"y">>

\* What a container of a deep document may hold, and what a wide root may.
DeepValues == {StrV(Blank), StrV(Padded), NumV} \cup {RefV(n) : n \in Nodes}
WideValues == {StrV(Blank), StrV(Padded), StrV(Plain), NumV, RefV(2)}

OtherKey == "code"
AllKeys == {preferred_keys[k] : k \in 1..Len(preferred_keys)} \cup {OtherKey}
FewKeys == {"data", "text", OtherKey}

\* The mappings of k items with distinct keys, and the lists of k items.
DictsOfSize(keys, pool, k) ==
    {DictC(ks, vs) :
        ks \in {f \in [1..k -> keys] : \A a, b \in 1..k : a # b => f[a] # f[b]},
        vs \in [1..k -> pool]}

ListsOfSize(pool, k) == {ListC(vs) : vs \in [1..k -> pool]}

ContainersOfSize(k) ==
    DictsOfSize(FewKeys, DeepValues, k) \cup ListsOfSize(DeepValues, k)

\* Two containers that may hold each other or themselves, the first with a
\* items and the second with b.
DeepDocs(a, b) ==
    {[root |-> RefV(1), heap |-> [n \in Nodes |-> IF n = 1 THEN c1 ELSE c2]] :
        c1 \in ContainersOfSize(a), c2 \in ContainersOfSize(b)}

\* A root mapping over every key, beside a list that holds a string.
WideDocs(a) ==
    {[root |-> RefV(1),
      heap |-> [n \in Nodes |-> IF n = 1 THEN c1 ELSE ListC(<<StrV(<<"z">>)>>)]] :
        c1 \in DictsOfSize(AllKeys, WideValues, a)}

\* A document that is a bare string or a bare scalar.
FlatDocs ==
    {[root |-> v, heap |-> EmptyHeap] :
        v \in {StrV(Blank), StrV(Padded), StrV(Plain), NumV}}

InitExtract ==
    /\ epc = "call"
    /\ \/ \E d \in FlatDocs : payload = d.root /\ heap = d.heap
       \/ \E a \in 0..MaxRootItems : \E d \in WideDocs(a) :
             payload = d.root /\ heap = d.heap
       \/ \E a \in 0..MaxSize : \E b \in 0..(MaxSize - a) : \E d \in DeepDocs(a, b) :
             payload = d.root /\ heap = d.heap
    /\ queue = <<>>
    /\ visited = {}
    /\ extracted = None
    /\ expanded = [n \in Nodes |-> 0]
    /\ iters = 0
    /\ ValIdle /\ ProbeIdle /\ NetIdle /\ MainIdle

\* queue = deque([payload]); visited = set()
ExtractCall ==
    /\ epc = "call"
    /\ queue' = <<payload>>
    /\ visited' = {}
    /\ epc' = "loop"
    /\ UNCHANGED <<heap, payload, extracted, expanded, iters>>
    /\ UNCHANGED <<valVars, probeVars, netVars, mainVars>>

\* One iteration of `while queue`, or the loop's end.
ExtractLoop ==
    /\ epc = "loop"
    /\ LET nx == ExtractIter(heap, queue, visited) IN
       /\ queue' = nx.queue
       /\ visited' = nx.visited
       /\ extracted' = nx.result
       /\ epc' = IF nx.done THEN "done" ELSE "loop"
       /\ expanded' =
            IF queue # <<>> /\ Head(queue).t = "ref"
               /\ Cardinality(nx.visited) > Cardinality(visited)
            THEN [expanded EXCEPT ![Head(queue).n] = @ + 1]
            ELSE expanded
    /\ iters' = iters + 1
    /\ UNCHANGED <<heap, payload, valVars, probeVars, netVars, mainVars>>

NextExtract == ExtractCall \/ ExtractLoop

SpecExtract == InitExtract /\ [][NextExtract]_vars

(***************************************************************************)
(* The servers.  A server answers one POST with a transport failure, a     *)
(* status other than 200, a body that is not JSON, or a JSON document.     *)
(***************************************************************************)
OneMapping(keys, vals, items2) ==
    Json(RefV(1), [n \in Nodes |-> IF n = 1 THEN DictC(keys, vals) ELSE ListC(items2)])

\* {"data": <the text sent>}
EchoDoc(text) == OneMapping(<<"data">>, <<StrV(text)>>, <<>>)
\* {"data": " hi "}
LooseDoc == OneMapping(<<"data">>, <<StrV(<<" ", "h", "i", " ">>)>>, <<>>)
\* {"code": 0, "text": " "}
MissingDoc == OneMapping(<<OtherKey, "text">>, <<NumV, StrV(Blank)>>, <<>>)
\* {"code": 0, "result": ["yo"]}
NestedDoc == OneMapping(<<OtherKey, "result">>, <<NumV, RefV(2)>>, <<StrV(<<"y", "o">>)>>)
\* {"data": "你好"}
GoodDoc == OneMapping(<<"data">>, <<StrV(<<"ni", "hao">>)>>, <<>>)

Refused == <<"Connection refused">>

Behaviours == {"down", "broken", "echo", "good"}

\* The answers a server of the given behaviour may give to the payload pl.
Replies(behaviour, pl) ==
    CASE behaviour = "down" -> {Exc(Refused)}
      [] behaviour = "broken" -> {Http(500)}
      [] behaviour = "echo" -> {EchoDoc(pl.text)}
      [] behaviour = "good" -> {GoodDoc}
      [] OTHER -> {Exc(Refused), Exc(<<>>), Http(500), NonJson,
                   EchoDoc(pl.text), LooseDoc, MissingDoc, NestedDoc}

(***************************************************************************)
(* check_endpoint, step by step.                                           *)
(***************************************************************************)
\* normalized, full_url, and the locals before the loop
ProbeCall ==
    /\ ppc = "call"
    /\ full_url' = FullUrl(base_url)
    /\ idx' = 0
    /\ loc' = NoLocals
    /\ ppc' = IF texts = <<>> THEN "after" ELSE "loop"
    /\ UNCHANGED <<name, base_url, texts, ret>>
    /\ UNCHANGED <<valVars, extVars, netVars, mainVars>>

\* One iteration of `for sample_text in texts`: one POST and its answer.
ProbeSample ==
    /\ ppc = "loop"
    /\ LET sample_text == texts[idx + 1]
           pl == BuildPayload(sample_text, DEFAULT_SOURCE_LANG, DEFAULT_TARGET_LANG)
       IN \E o \in Replies(server, pl) :
             LET r == AttemptSample(loc, sample_text, o) IN
             /\ sent' = Append(sent, [url |-> full_url, json |-> pl])
             /\ answers' = Append(answers, o)
             /\ loc' = r.st
             /\ idx' = idx + 1
             /\ ppc' = IF r.brk \/ idx + 1 = Len(texts) THEN "after" ELSE "loop"
    /\ UNCHANGED <<name, base_url, texts, full_url, ret, server>>
    /\ UNCHANGED <<valVars, extVars, mainVars>>

\* success, detail and the EndpointResult returned
ProbeReturn ==
    /\ ppc = "after"
    /\ ret' = Summarize(name, base_url, full_url, Len(texts), loc)
    /\ ppc' = "returned"
    /\ UNCHANGED <<name, base_url, texts, full_url, idx, loc>>
    /\ UNCHANGED <<valVars, extVars, netVars, mainVars>>

(***************************************************************************)
(* A direct call of check_endpoint, against a server that may answer       *)
(* anything to each request.                                               *)
(***************************************************************************)
TextPool == {<<"H", "i">>, <<"y", "o">>}

InitProbe ==
    /\ ppc = "call"
    /\ name = <<"A">>
    /\ base_url \in {<<"a">>, <<"b", "/", "/">>}
    /\ texts \in StringsUpTo(TextPool, MaxTexts)
    /\ full_url = <<>>
    /\ idx = 0
    /\ loc = NoLocals
    /\ ret = NoResult
    /\ NetIdle
    /\ ValIdle /\ ExtIdle /\ MainIdle

NextProbe == ProbeCall \/ ProbeSample \/ ProbeReturn

SpecProbe == InitProbe /\ [][NextProbe]_vars

(***************************************************************************)
(* main, step by step.                                                     *)
(***************************************************************************)
\* endpoints = read_endpoints(args.csv_path), or exit code 2;
\* texts = args.texts or DEFAULT_TEST_TEXTS
MainStart ==
    /\ mpc = "start"
    /\ LET r == ReadEndpoints(file) IN
       IF ~r.ok
       THEN /\ report' = [report EXCEPT !.stderr = Append(@, <<"[error] ">> \o r.error)]
            /\ exit_code' = 2
            /\ mpc' = "exit"
            /\ UNCHANGED <<endpoints, run_texts>>
       ELSE /\ endpoints' = r.endpoints
            /\ run_texts' = IF args.texts # <<>> THEN args.texts ELSE DEFAULT_TEST_TEXTS
            /\ mpc' = "loop"
            /\ UNCHANGED <<report, exit_code>>
    /\ UNCHANGED <<file, args, disk_ok, results>>
    /\ UNCHANGED <<valVars, extVars, probeVars, netVars>>

\* for name, base_url in endpoints: result = check_endpoint(...)
MainCall ==
    /\ mpc = "loop"
    /\ LET e == endpoints[Len(results) + 1] IN
       /\ name' = e.name
       /\ base_url' = e.base_url
       /\ texts' = run_texts
    /\ ppc' = "call"
    /\ server' \in Behaviours
    /\ mpc' = "probing"
    /\ UNCHANGED <<full_url, idx, loc, ret, sent, answers>>
    /\ UNCHANGED <<file, args, disk_ok, endpoints, run_texts, results, report, exit_code>>
    /\ UNCHANGED <<valVars, extVars>>

\* results.append(result)
MainCollect ==
    /\ mpc = "probing"
    /\ ppc = "returned"
    /\ results' = Append(results, ret)
    /\ mpc' = IF Len(results) + 1 = Len(endpoints) THEN "report" ELSE "loop"
    /\ ppc' = "idle"
    /\ UNCHANGED <<name, base_url, texts, full_url, idx, loc, ret>>
    /\ UNCHANGED <<file, args, disk_ok, endpoints, run_texts, report, exit_code>>
    /\ UNCHANGED <<valVars, extVars, netVars>>

\* print(format_results(results)); write_summary; write_json; the exit code
MainReport ==
    /\ mpc = "report"
    /\ report' =
         [printed |-> TRUE,
          json |-> IF ~args.json_output THEN "none"
                   ELSE IF disk_ok THEN "written" ELSE "failed",
          stderr |-> IF args.json_output /\ ~disk_ok
                     THEN Append(report.stderr, <<"[warning] Failed to write JSON output">>)
                     ELSE report.stderr]
    /\ exit_code' = ExitCode(results, args.allow_partial)
    /\ mpc' = "exit"
    /\ UNCHANGED <<file, args, disk_ok, endpoints, run_texts, results>>
    /\ UNCHANGED <<valVars, extVars, probeVars, netVars>>

(***************************************************************************)
(* A run of main on every small endpoint list.                             *)
(***************************************************************************)
HeaderPool ==
    {<<>>, <<<<"base_url">>, <<"name">>>>, <<<<" ", "Base_URL">>>>, <<<<"Name">>>>}

RowPool == {<<<<"#", "c">>>>, <<<<" ", "a", " ">>>>, <<<<"b", "/">>, <<"B">>>>}

FilePool ==
    {[state |-> "missing", header |-> <<>>, rows |-> <<>>],
     [state |-> "garbled", header |-> <<>>, rows |-> <<>>]}
    \cup {[state |-> "ok", header |-> h, rows |-> rs] :
            h \in HeaderPool, rs \in StringsUpTo(RowPool, MaxRows)}

InitMain ==
    /\ mpc = "start"
    /\ file \in FilePool
    /\ \E t \in {<<>>, <<<<"y", "o">>>>}, partial \in BOOLEAN,
          mode \in {"none", "ok", "fail"} :
          /\ args = [texts |-> t, allow_partial |-> partial,
                     json_output |-> mode # "none"]
          /\ disk_ok = (mode # "fail")
    /\ endpoints = <<>>
    /\ run_texts = <<>>
    /\ results = <<>>
    /\ report = NoReport
    /\ exit_code = 0
    /\ ValIdle /\ ExtIdle /\ ProbeIdle /\ NetIdle

NextMain ==
    \/ MainStart
    \/ MainCall
    \/ ProbeCall
    \/ ProbeSample
    \/ ProbeReturn
    \/ MainCollect
    \/ MainReport

SpecMain == InitMain /\ [][NextMain]_vars

(***************************************************************************)
(* What the claims speak of, stated without the code's own operators.      *)
(***************************************************************************)
NonBlank(s) == \E k \in 1..Len(s) : s[k] \notin Whitespace

\* s without its leading and trailing whitespace.
Trimmed(s) ==
    LET nz == {k \in 1..Len(s) : s[k] \notin Whitespace} IN
    IF nz = {} THEN <<>>
    ELSE SubSeq(s, CHOOSE k \in nz : \A j \in nz : k <= j,
                   CHOOSE k \in nz : \A j \in nz : k >= j)

\* s without any whitespace, lower-cased.
Collapsed(s) ==
    LET kept == SelectSeq(s, LAMBDA c : c \notin Whitespace) IN
    [k \in 1..Len(kept) |-> Lower(kept[k])]

\* The containers reachable from the set S through values and items.
RECURSIVE Closure(_, _)
Closure(h, S) ==
    LET T == S \cup {n \in Nodes :
                       \E m \in S : \E k \in 1..Len(h[m].items) :
                          h[m].items[k] = RefV(n)}
    IN IF T = S THEN S ELSE Closure(h, T)

ReachableNodes(h, root) == Closure(h, IF root.t = "ref" THEN {root.n} ELSE {})

\* The string values reachable from the root (keys are not values).
ReachableStrings(h, root) ==
    (IF root.t = "str" THEN {root.s} ELSE {})
    \cup {h[n].items[k].s : <<n, k>> \in
            {x \in ReachableNodes(h, root) \X (1..(MaxSize + MaxRootItems)) :
                /\ x[2] <= Len(h[x[1]].items)
                /\ h[x[1]].items[x[2]].t = "str"}}

TotalItems(h) == Len(h[1].items) + Len(h[2].items)

\* The root mapping's preferred keys that hold a non-blank string.
GoodPreferred(c) ==
    {k \in 1..Len(preferred_keys) :
        /\ HasKey(c, preferred_keys[k])
        /\ Lookup(c, preferred_keys[k]).t = "str"
        /\ NonBlank(Lookup(c, preferred_keys[k]).s)}

RootIsMapping == payload.t = "ref" /\ heap[payload.n].kind = "dict"

(***************************************************************************)
(* C3.  As claimed: is_translation_valid is false for an absent or empty   *)
(* candidate and, for every other candidate, true exactly when source and  *)
(* candidate differ once whitespace is removed and case is folded.         *)
(***************************************************************************)
C3_AsClaimed ==
    vpc = "done" =>
        valid = IF ~translated_text.some \/ translated_text.s = <<>>
                THEN FALSE
                ELSE Collapsed(source_text) # Collapsed(translated_text.s)

(***************************************************************************)
(* C3, amended.  is_translation_valid is false for a candidate that is     *)
(* absent, empty or made only of whitespace and, for every other           *)
(* candidate, true exactly when source and candidate differ once           *)
(* whitespace is removed and case is folded.                               *)
(***************************************************************************)
C3_Validator ==
    vpc = "done" =>
        valid = IF ~translated_text.some \/ ~NonBlank(translated_text.s)
                THEN FALSE
                ELSE Collapsed(source_text) # Collapsed(translated_text.s)

\* A whitespace-only candidate against a source that is not blank.
C3_Witness ==
    /\ vpc = "done"
    /\ translated_text.some
    /\ translated_text.s # <<>>
    /\ ~NonBlank(translated_text.s)
    /\ NonBlank(source_text)
    /\ valid = FALSE

(***************************************************************************)
(* C4.  When the root is a mapping in which some preferred key holds a     *)
(* string that is not blank, extract_translation returns the trimmed value *)
(* of the first such key in the order data, text, result, translation,     *)
(* whatever else the mapping holds and in whatever order.                  *)
(***************************************************************************)
C4_PreferredKeyFirst ==
    (epc = "done" /\ RootIsMapping /\ GoodPreferred(heap[payload.n]) # {}) =>
        LET c == heap[payload.n]
            first == CHOOSE k \in GoodPreferred(c) :
                        \A j \in GoodPreferred(c) : k <= j
        IN extracted = Some(Trimmed(Lookup(c, preferred_keys[first]).s))

\* The winning key is not the first inserted: a key that is not preferred
\* holds an earlier non-blank string, and an earlier preferred key a container.
C4_Witness ==
    /\ epc = "done"
    /\ RootIsMapping
    /\ LET c == heap[payload.n] IN
       /\ Len(c.keys) = 3
       /\ c.keys[1] = OtherKey /\ c.items[1] = StrV(Plain)
       /\ c.keys[2] = "translation" /\ c.items[2] = StrV(Padded)
       /\ c.keys[3] = "data" /\ c.items[3].t = "ref"
    /\ extracted = Some(<<"x">>)

(***************************************************************************)
(* C5.  extract_translation terminates, cyclic and shared structures       *)
(* included: each container is expanded at most once, the loop runs at     *)
(* most once per value it was given or enqueued (the root, and at most two *)
(* per item of an expanded container) and once more to find the queue      *)
(* empty.                                                                  *)
(***************************************************************************)
C5_Terminates ==
    /\ \A n \in Nodes : expanded[n] <= 1
    /\ iters <= 2 + 2 * TotalItems(heap)

\* A mapping that holds itself twice over and no string: traversed to the end.
C5_Witness ==
    /\ epc = "done"
    /\ extracted = None
    /\ heap[1].kind = "dict"
    /\ Len(heap[1].items) = 2
    /\ heap[1].keys[1] = "data" /\ heap[1].items[1] = RefV(2)
    /\ heap[1].items[2] = RefV(1)
    /\ heap[2].items = <<RefV(1)>>
    /\ expanded = [n \in Nodes |-> 1]
    /\ iters = 6

(***************************************************************************)
(* C10.  extract_translation returns absence exactly when no string that   *)
(* is non-blank is reachable from the root through mapping values and list *)
(* items; a string it returns is the trimmed form of such a string, hence  *)
(* not empty and without whitespace at either end.                         *)
(***************************************************************************)
C10_SoundComplete ==
    epc = "done" =>
        LET cands == {Trimmed(s) : s \in ReachableStrings(heap, payload)} \ {<<>>}
        IN /\ (extracted = None) <=> (cands = {})
           /\ extracted.some =>
                 /\ extracted.s \in cands
                 /\ extracted.s # <<>>
                 /\ extracted.s[1] \notin Whitespace
                 /\ extracted.s[Len(extracted.s)] \notin Whitespace

\* The only non-blank string sits in the second container, padded, behind a
\* blank string and a reference.
C10_Witness ==
    /\ epc = "done"
    /\ heap[1] = ListC(<<StrV(Blank), RefV(2)>>)
    /\ heap[2] = ListC(<<StrV(Padded)>>)
    /\ extracted = Some(<<"x">>)

\* Whether an answer is a 200 response with a JSON body.
IsJson200(o) == o.kind = "resp" /\ o.status = 200 /\ o.json

\* The non-blank strings a JSON answer holds, trimmed.
Candidates(o) == {Trimmed(x) : x \in ReachableStrings(o.heap, o.root)} \ {<<>>}

\* The detail a failed sample is to carry, by the answer it got.
ExpectedSampleDetail(o) ==
    IF o.kind = "exc" THEN o.msg
    ELSE IF o.status # 200
         THEN <<"HTTP ">> \o (IF o.status = 500 THEN <<"5", "0", "0">> ELSE <<"?">>)
    ELSE IF ~o.json THEN <<"Non-JSON response">>
    ELSE IF Candidates(o) = {} THEN <<"Missing translation field">>
    ELSE <<"Translation identical to source">>

\* The first failed sample of a result, by position.
FirstFailure(samps) ==
    CHOOSE k \in 1..Len(samps) :
        ~samps[k].success /\ \A j \in 1..Len(samps) : ~samps[j].success => k <= j

SomeFailure(samps) == \E k \in 1..Len(samps) : ~samps[k].success

\* The endpoint list cannot be read, or yields no endpoint.
ListUnusable(f) ==
    \/ f.state # "ok"
    \/ f.header # <<>>
         /\ \A j \in 1..Len(f.header) : Collapsed(f.header[j]) # <<"base_url">>
    \/ LET col == IF f.header = <<>> THEN 1
                  ELSE CHOOSE j \in 1..Len(f.header) :
                          Collapsed(f.header[j]) = <<"base_url">>
       IN \A k \in 1..Len(f.rows) :
             \/ Len(f.rows[k]) < col
             \/ Trimmed(f.rows[k][col]) = <<>>
             \/ Trimmed(f.rows[k][col])[1] = "#"

(***************************************************************************)
(* C1.  The result of check_endpoint on N sample texts holds at most N     *)
(* samples, and its success is true exactly when it holds N samples and    *)
(* every one of them succeeded; N = 0 included.                            *)
(***************************************************************************)
C1_SuccessIffAllSamples ==
    ppc = "returned" =>
        /\ Len(ret.samples) <= Len(texts)
        /\ ret.success <=>
              /\ Len(ret.samples) = Len(texts)
              /\ \A k \in 1..Len(ret.samples) : ret.samples[k].success

\* Every configured sample was attempted and the last one failed.
C1_Witness ==
    /\ ppc = "returned"
    /\ Len(texts) = 2
    /\ Len(ret.samples) = 2
    /\ ret.samples[1].success
    /\ ~ret.samples[2].success
    /\ ~ret.success

(***************************************************************************)
(* C2.  Short-circuit: one POST is issued per recorded sample, for the     *)
(* texts in their order and to the endpoint's URL; a sample that got no    *)
(* 200 JSON answer is a failure; only the last recorded sample can be a    *)
(* failure, and once it is, the loop is over: if sample i is the first to  *)
(* fail, exactly i requests were sent and i samples are returned.          *)
(***************************************************************************)
C2_ShortCircuit ==
    LET n == Len(loc.samples) IN
    /\ Len(sent) = n
    /\ n <= Len(texts)
    /\ \A k \in 1..n :
          /\ loc.samples[k].text = texts[k]
          /\ sent[k].json.text = texts[k]
          /\ sent[k].url = full_url
          /\ ~IsJson200(answers[k]) => ~loc.samples[k].success
    /\ \A k \in 1..(n - 1) : loc.samples[k].success
    /\ (n >= 1 /\ ~loc.samples[n].success) => ppc \in {"after", "returned"}
    /\ ppc = "returned" =>
          /\ ret.samples = loc.samples
          /\ SomeFailure(ret.samples) =>
                /\ Len(ret.samples) = FirstFailure(ret.samples)
                /\ Len(sent) = FirstFailure(ret.samples)

\* The first of two samples fails: one request, one sample.
C2_Witness ==
    /\ ppc = "returned"
    /\ Len(texts) = 2
    /\ Len(sent) = 1
    /\ Len(ret.samples) = 1
    /\ ~ret.samples[1].success
    /\ answers[1] = NonJson

(***************************************************************************)
(* C6.  A failed probe's detail is "Sample '<text>' failed: <detail>" of   *)
(* its first failed sample, followed by " -> <translation>" exactly when   *)
(* that sample carries a translation, which is the echoed-translation      *)
(* case; a successful probe's detail is "All <N> samples translated".      *)
(***************************************************************************)
C6_Detail ==
    ppc = "returned" =>
        IF ret.success
        THEN ret.detail =
                <<"All ", <<"0", "1", "2", "3", "4">>[Len(texts) + 1],
                  " samples translated">>
        ELSE /\ SomeFailure(ret.samples)
             /\ LET i == FirstFailure(ret.samples)
                    f == ret.samples[i]
                    o == answers[i]
                    echoed == IsJson200(o) /\ Candidates(o) # {}
                IN /\ f.detail = ExpectedSampleDetail(o)
                   /\ f.translation.some <=> echoed
                   /\ ret.detail =
                        <<"Sample '">> \o f.text \o <<"' failed: ">> \o f.detail
                        \o (IF echoed THEN <<" -> ">> \o f.translation.s ELSE <<>>)

\* An echo that differs from the text in case and padding only.
C6_Witness ==
    /\ ppc = "returned"
    /\ ~ret.success
    /\ ret.detail = <<"Sample '", "H", "i", "' failed: ",
                      "Translation identical to source", " -> ", "h", "i">>

(***************************************************************************)
(* C8.  status_code is the status of the last response received during    *)
(* the probe, and absent exactly when no response was received.            *)
(***************************************************************************)
C8_StatusCode ==
    ppc = "returned" =>
        LET got == SelectSeq(answers, LAMBDA o : o.kind = "resp") IN
        /\ ret.status_code.some <=> got # <<>>
        /\ got # <<>> => ret.status_code = Status(got[Len(got)].status)
        /\ got = <<>> => ret.status_code = NoStatus

\* A transport failure on the second sample, after a 200 on the first.
C8_Witness ==
    /\ ppc = "returned"
    /\ Len(answers) = 2
    /\ answers[1].kind = "resp"
    /\ answers[2].kind = "exc"
    /\ ret.status_code = Status(200)

(***************************************************************************)
(* C9.  check_endpoint never returns the detail "Unknown failure" nor a    *)
(* detail "Request failed: ...": a failed probe holds a failed sample.     *)
(***************************************************************************)
C9_NoFallbackDetail ==
    ppc = "returned" =>
        /\ ret.detail # <<"Unknown failure">>
        /\ ret.detail # <<>>
        /\ Head(ret.detail) # "Request failed: "
        /\ ~ret.success => SomeFailure(ret.samples)

\* A transport failure, whose message is empty, on the first sample.
C9_Witness ==
    /\ ppc = "returned"
    /\ ~ret.success
    /\ answers = <<Exc(<<>>)>>
    /\ loc.last_exception = Some(<<>>)
    /\ Head(ret.detail) = "Sample '"

(***************************************************************************)
(* C7.  main exits with 2, and sends no request, when the endpoint list    *)
(* cannot be read or yields no endpoint; otherwise with 0 when every       *)
(* endpoint succeeded or allow-partial is set, and with 1 when an endpoint *)
(* failed and allow-partial is not set, whether or not the JSON report     *)
(* could be written.                                                       *)
(***************************************************************************)
C7_ExitCode ==
    mpc = "exit" =>
        IF ListUnusable(file)
        THEN exit_code = 2 /\ sent = <<>> /\ results = <<>>
        ELSE /\ Len(results) >= 1
             /\ exit_code =
                  IF (\A k \in 1..Len(results) : results[k].success)
                     \/ args.allow_partial
                  THEN 0 ELSE 1

\* One endpoint up, one down, no allow-partial, and the report not written.
C7_Witness ==
    /\ mpc = "exit"
    /\ report.json = "failed"
    /\ Len(results) = 2
    /\ results[1].success
    /\ ~results[2].success
    /\ ~args.allow_partial
    /\ exit_code = 1

====
